---- MODULE Spec2Model ----
(***************************************************************************)
(* Model of multiaccount.py: the per-account worker run_account, the       *)
(* audit log append_log, and the orchestrator run_concurrent / main.       *)
(*                                                                         *)
(* Workers are indexed by their row in the account list.  Files (target    *)
(* list, session, audit log) are keyed by username, as in the source.      *)
(* External calls (login, lookup, generation, delivery, session save)      *)
(* either return or raise; the outcome is chosen nondeterministically.     *)
(***************************************************************************)
EXTENDS Integers, Sequences, FiniteSets, TLC

\* ---------------------------------------------------------------- bounds
\* DMS_PER_HOUR and TOTAL_HOURS are 7 and 5 in the source (lines 38-39);
\* the model runs them scaled down so that whole campaigns are explored.
DMS_PER_HOUR == 2
TOTAL_HOURS == 3
MaxTargets == 7      \* longest target list explored in the one-account model
MaxMediaTargets == 4 \* longest list explored with media, a session or an old log
NumAccounts == 4     \* number of account rows in the orchestrator model
FullAccounts == 1    \* how many of them have a target list

\* ------------------------------------------------------ program constants
DAILY_LIMIT == DMS_PER_HOUR * TOTAL_HOURS
max_concurrent == 3

HEADER == <<"username", "status", "message", "image_sent">>
OLD_ROW == <<0, "success", "text", FALSE>>   \* a row left by an earlier run

VARIABLES
    accountsFileExists, \* ACCOUNTS_FILE.exists()
    accounts,           \* rows read by main: sequence of usernames
    listExists,         \* username -> the target list file exists
    targetsFile,        \* username -> the stripped non-blank lines of the file
    mediaAvailable,     \* MEDIA_DIR exists and holds an image
    sessionFile,        \* username -> session file exists
    logFile,            \* username -> rows of dm_log_<username>.csv
    mainPc,             \* position of main
    orchPc,             \* position of run_concurrent
    nextSubmit,         \* next row the launch loop submits
    orchErr,            \* exception pending in run_concurrent
    pc,                 \* worker -> position of run_account
    hour,               \* worker -> loop variable hour
    idx,                \* worker -> position inside the current batch
    sent_total,         \* worker -> sent_total
    attempted,          \* worker -> sequence of <<hour, list position>> attempted
    written,            \* worker -> records appended by this run
    textSent,           \* worker -> list positions whose text delivery succeeded
    mediaTried,         \* worker -> number of media deliveries attempted
    restoreFailed,      \* worker -> the try block of the restore raised
    freshLogins,        \* worker -> login calls outside the restore attempt
    resumeLogins,       \* worker -> login calls inside the restore attempt
    authed,             \* worker -> some login call returned
    saves,              \* worker -> dump_settings calls that returned
    cooldowns,          \* worker -> per finished attempt: the cooldown sleep ran
    hourWaits,          \* worker -> one-hour waits performed
    limitHit,           \* worker -> the daily-limit break was taken
    lastRaise           \* worker -> where the exception that ended it came from

inputVars == <<accountsFileExists, accounts, listExists, targetsFile,
              mediaAvailable>>
orchVars == <<mainPc, orchPc, nextSubmit, orchErr>>
authVars == <<restoreFailed, freshLogins, resumeLogins, authed>>
loopVars == <<hour, idx, sent_total, limitHit, hourWaits>>
sendVars == <<attempted, written, textSent, mediaTried, cooldowns, logFile>>
vars == <<inputVars, orchVars, authVars, loopVars, sendVars,
          sessionFile, pc, saves, lastRaise>>

Workers == 1..Len(accounts)
UserOf(i) == accounts[i]
targets(i) == targetsFile[UserOf(i)]

\* ----------------------------------------------------------- pure helpers
Min(a, b) == IF a < b THEN a ELSE b

\* Python slice s[lo:hi] for 0 <= lo <= hi, as a sequence
Slice(s, lo, hi) == SubSeq(s, Min(lo, Len(s)) + 1, Min(hi, Len(s)))

\* the list positions 1..Len(tg), so that a slice keeps track of where its
\* elements come from
Positions(tg) == [p \in 1..Len(tg) |-> p]

\* faulty variant of Batch: the slice starts at the head of the list
Batch_NoStart(tg, h) == Slice(Positions(tg), 0, h * DMS_PER_HOUR)

\* batch = targets[(hour - 1) * DMS_PER_HOUR : hour * DMS_PER_HOUR], line 184,
\* as the list positions of its elements
Batch(tg, h) == Slice(Positions(tg), (h - 1) * DMS_PER_HOUR, h * DMS_PER_HOUR)

Finished(i) == pc[i] \in {"returned", "raised"}
Running(i) == pc[i] \notin {"unsubmitted", "queued", "returned", "raised"}

\* ------------------------------------------------------------------ inputs
\* Target handles are numbers.  A list either holds distinct handles or
\* repeats its first handle on its last line (the file is not deduplicated).
DistinctList(n) == [p \in 1..n |-> p]
DupList(n) == [p \in 1..n |-> IF p = n THEN 1 ELSE p]
TargetLists == {DistinctList(n) : n \in 0..MaxTargets}
                   \cup {DupList(n) : n \in 2..3}

InitRun(accs) ==
    /\ accounts = accs
    /\ mainPc = "start"
    /\ orchPc = "idle"
    /\ nextSubmit = 1
    /\ orchErr = FALSE
    /\ pc = [i \in 1..Len(accs) |-> "unsubmitted"]
    /\ hour = [i \in 1..Len(accs) |-> 0]
    /\ idx = [i \in 1..Len(accs) |-> 0]
    /\ sent_total = [i \in 1..Len(accs) |-> 0]
    /\ attempted = [i \in 1..Len(accs) |-> <<>>]
    /\ written = [i \in 1..Len(accs) |-> <<>>]
    /\ textSent = [i \in 1..Len(accs) |-> <<>>]
    /\ mediaTried = [i \in 1..Len(accs) |-> 0]
    /\ restoreFailed = [i \in 1..Len(accs) |-> FALSE]
    /\ freshLogins = [i \in 1..Len(accs) |-> 0]
    /\ resumeLogins = [i \in 1..Len(accs) |-> 0]
    /\ authed = [i \in 1..Len(accs) |-> FALSE]
    /\ saves = [i \in 1..Len(accs) |-> 0]
    /\ cooldowns = [i \in 1..Len(accs) |-> <<>>]
    /\ hourWaits = [i \in 1..Len(accs) |-> 0]
    /\ limitHit = [i \in 1..Len(accs) |-> FALSE]
    /\ lastRaise = [i \in 1..Len(accs) |-> "none"]

\* one account, every target list up to MaxTargets lines; lists of up to
\* MaxMediaTargets lines are also run with images available, with a session
\* file and with an audit log left by an earlier run (the earlier log in
\* runs without images)
Init ==
    /\ InitRun(<<1>>)
    /\ accountsFileExists \in BOOLEAN
    /\ listExists \in [{1} -> BOOLEAN]
    /\ targetsFile \in [{1} -> IF listExists[1] THEN TargetLists ELSE {<<>>}]
    /\ mediaAvailable \in BOOLEAN
    /\ sessionFile \in [{1} -> BOOLEAN]
    /\ logFile \in [{1} -> {<<>>, <<HEADER, OLD_ROW>>}]
    /\ (mediaAvailable \/ sessionFile[1] \/ logFile[1] # <<>>)
           => Len(targetsFile[1]) <= MaxMediaTargets
    /\ logFile[1] # <<>> => ~mediaAvailable

\* NumAccounts accounts with distinct usernames; the first FullAccounts of
\* them have a target list of one line, the others have no target list
InitOrch ==
    /\ InitRun([i \in 1..NumAccounts |-> i])
    /\ accountsFileExists = TRUE
    /\ listExists = [u \in 1..NumAccounts |-> u <= FullAccounts]
    /\ targetsFile = [u \in 1..NumAccounts |->
                         IF u <= FullAccounts THEN <<1>> ELSE <<>>]
    /\ mediaAvailable = FALSE
    /\ sessionFile \in {[u \in 1..NumAccounts |-> b] : b \in BOOLEAN}
    /\ logFile = [u \in 1..NumAccounts |-> <<>>]

\* the accounts file lists the same username on two rows (main keeps every
\* row of at least two fields); the account has a list of one line
InitDup ==
    /\ InitRun(<<1, 1>>)
    /\ accountsFileExists = TRUE
    /\ listExists = [u \in {1} |-> TRUE]
    /\ targetsFile = [u \in {1} |-> DistinctList(1)]
    /\ mediaAvailable = FALSE
    /\ sessionFile \in [{1} -> BOOLEAN]
    /\ logFile = [u \in {1} |-> <<>>]

\* ------------------------------------------------------------ orchestrator
\* The launch loop of lines 252-256 sleeps before each submission; after the
\* last one run_concurrent goes on to gather(*tasks) without suspending.
AfterSubmit(n) == IF n >= Len(accounts) THEN "gather" ELSE "launching"

\* main, lines 259-272: a missing accounts file raises FileNotFoundError,
\* otherwise the rows are read and run_concurrent starts.
Main ==
    /\ mainPc = "start"
    /\ IF accountsFileExists
       THEN mainPc' = "running" /\ orchPc' = AfterSubmit(0)
       ELSE mainPc' = "fatal" /\ orchPc' = orchPc
    /\ UNCHANGED <<inputVars, nextSubmit, orchErr, authVars, loopVars,
                   sendVars, sessionFile, pc, saves, lastRaise>>

\* launch loop, lines 252-256: stagger sleep, then submit the next row
Submit ==
    /\ orchPc = "launching"
    /\ nextSubmit <= Len(accounts)
    /\ pc' = [pc EXCEPT ![nextSubmit] = "queued"]
    /\ nextSubmit' = nextSubmit + 1
    /\ orchPc' = AfterSubmit(nextSubmit)
    /\ UNCHANGED <<inputVars, mainPc, orchErr, authVars, loopVars,
                   sendVars, sessionFile, saves, lastRaise>>

\* gather without return_exceptions: the first task exception is raised in
\* the awaiting coroutine at once; the other tasks are left running.
GatherRaise ==
    /\ orchPc = "gather"
    /\ \E i \in Workers : pc[i] = "raised"
    /\ orchPc' = "exiting"
    /\ orchErr' = TRUE
    /\ UNCHANGED <<inputVars, mainPc, nextSubmit, authVars, loopVars,
                   sendVars, sessionFile, pc, saves, lastRaise>>

\* gather returns once every task has returned
GatherReturn ==
    /\ orchPc = "gather"
    /\ \A i \in Workers : pc[i] = "returned"
    /\ orchPc' = "exiting"
    /\ UNCHANGED <<inputVars, mainPc, nextSubmit, orchErr, authVars, loopVars,
                   sendVars, sessionFile, pc, saves, lastRaise>>

\* faulty variant of ShutdownDone: shutdown(wait=False)
ShutdownDone_NoWait == TRUE

\* ThreadPoolExecutor.__exit__ is shutdown(wait=True): it returns when every
\* submitted work item has run
ShutdownDone == \A i \in Workers : Finished(i)

\* leaving the with block, then run_concurrent returns or raises, and so
\* does main (asyncio.run passes the result on)
ExecutorExit ==
    /\ orchPc = "exiting"
    /\ ShutdownDone
    /\ orchPc' = IF orchErr THEN "raised" ELSE "returned"
    /\ mainPc' = IF orchErr THEN "fatal" ELSE "done"
    /\ UNCHANGED <<inputVars, nextSubmit, orchErr, authVars, loopVars,
                   sendVars, sessionFile, pc, saves, lastRaise>>

\* faulty variant of SlotFree: a thread per submitted work item
SlotFree_Unbounded == TRUE

\* faulty variant of SlotFree: a thread is not given back to the pool when
\* its work item ends
SlotFree_Leak ==
    Cardinality({j \in Workers : pc[j] \notin {"unsubmitted", "queued"}})
        < max_concurrent

\* a pool thread is free: fewer than max_concurrent work items are running
SlotFree == Cardinality({j \in Workers : Running(j)}) < max_concurrent

\* A pool thread takes the oldest queued work item and calls run_account
StartWorker(i) ==
    /\ pc[i] = "queued"
    /\ \A j \in Workers : j < i => pc[j] # "queued"
    /\ SlotFree
    /\ pc' = [pc EXCEPT ![i] = "start"]
    /\ UNCHANGED <<inputVars, orchVars, authVars, loopVars, sendVars,
                   sessionFile, saves, lastRaise>>

\* lines 150-164: a missing or empty target list returns at once
ReadTargets(i) ==
    /\ pc[i] = "start"
    /\ pc' = [pc EXCEPT ![i] =
                 IF ~listExists[UserOf(i)] \/ targets(i) = <<>>
                 THEN "returned" ELSE "auth"]
    /\ UNCHANGED <<inputVars, orchVars, authVars, loopVars, sendVars,
                   sessionFile, saves, lastRaise>>

\* ------------------------------------------------------------ run_account
\* faulty variant of TryRestore: the restore exception is swallowed and the
\* worker goes on without the fresh login
TryRestore_Swallow(i) ==
    /\ pc[i] = "auth"
    /\ sessionFile[UserOf(i)]
    /\ \E loadOK \in BOOLEAN, loginOK \in BOOLEAN :
        /\ resumeLogins' = [resumeLogins EXCEPT ![i] = @ + (IF loadOK THEN 1 ELSE 0)]
        /\ authed' = [authed EXCEPT ![i] = @ \/ (loadOK /\ loginOK)]
        /\ restoreFailed' = [restoreFailed EXCEPT ![i] = ~(loadOK /\ loginOK)]
        /\ pc' = [pc EXCEPT ![i] = "save"]
    /\ UNCHANGED <<inputVars, orchVars, freshLogins, loopVars, sendVars,
                   sessionFile, saves, lastRaise>>

\* lines 167-173: the session file exists; load_settings then login inside
\* the try block.  Any exception leads to the fresh login of line 174.
TryRestore(i) ==
    /\ pc[i] = "auth"
    /\ sessionFile[UserOf(i)]
    /\ \E loadOK \in BOOLEAN, loginOK \in BOOLEAN :
        /\ resumeLogins' = [resumeLogins EXCEPT ![i] = @ + (IF loadOK THEN 1 ELSE 0)]
        /\ IF loadOK /\ loginOK
           THEN /\ authed' = [authed EXCEPT ![i] = TRUE]
                /\ restoreFailed' = restoreFailed
                /\ pc' = [pc EXCEPT ![i] = "save"]
           ELSE /\ authed' = authed
                /\ restoreFailed' = [restoreFailed EXCEPT ![i] = TRUE]
                /\ pc' = [pc EXCEPT ![i] = "fresh"]
    /\ UNCHANGED <<inputVars, orchVars, freshLogins, loopVars, sendVars,
                   sessionFile, saves, lastRaise>>

\* faulty variant of FreshLogin: the login exception is swallowed and the
\* worker goes on to the hour loop
FreshLogin_Swallow(i) ==
    /\ \/ pc[i] = "fresh"
       \/ pc[i] = "auth" /\ ~sessionFile[UserOf(i)]
    /\ freshLogins' = [freshLogins EXCEPT ![i] = @ + 1]
    /\ \E loginOK \in BOOLEAN :
        /\ authed' = [authed EXCEPT ![i] = @ \/ loginOK]
        /\ lastRaise' = [lastRaise EXCEPT ![i] = IF loginOK THEN @ ELSE "login"]
    /\ pc' = [pc EXCEPT ![i] = "save"]
    /\ UNCHANGED <<inputVars, orchVars, restoreFailed, resumeLogins, loopVars,
                   sendVars, sessionFile, saves>>

\* line 174 (after a failed restore) or line 176 (no session file): one
\* login call outside any try block; its exception ends run_account.
FreshLogin(i) ==
    /\ \/ pc[i] = "fresh"
       \/ pc[i] = "auth" /\ ~sessionFile[UserOf(i)]
    /\ freshLogins' = [freshLogins EXCEPT ![i] = @ + 1]
    /\ \E loginOK \in BOOLEAN :
        IF loginOK
        THEN /\ authed' = [authed EXCEPT ![i] = TRUE]
             /\ pc' = [pc EXCEPT ![i] = "save"]
             /\ lastRaise' = lastRaise
        ELSE /\ authed' = authed
             /\ pc' = [pc EXCEPT ![i] = "raised"]
             /\ lastRaise' = [lastRaise EXCEPT ![i] = "login"]
    /\ UNCHANGED <<inputVars, orchVars, restoreFailed, resumeLogins, loopVars,
                   sendVars, sessionFile, saves>>

\* lines 178-182: dump_settings after the login, then sent_total = 0 and the
\* hour loop starts.  dump_settings is outside any try block.
SaveAfterLogin(i) ==
    /\ pc[i] = "save"
    /\ \E saveOK \in BOOLEAN :
        IF saveOK
        THEN /\ sessionFile' = [sessionFile EXCEPT ![UserOf(i)] = TRUE]
             /\ saves' = [saves EXCEPT ![i] = @ + 1]
             /\ sent_total' = [sent_total EXCEPT ![i] = 0]
             /\ hour' = [hour EXCEPT ![i] = 1]
             /\ pc' = [pc EXCEPT ![i] = "hour"]
             /\ lastRaise' = lastRaise
        ELSE /\ pc' = [pc EXCEPT ![i] = "raised"]
             /\ lastRaise' = [lastRaise EXCEPT ![i] = "save"]
             /\ UNCHANGED <<sessionFile, saves, sent_total, hour>>
    /\ UNCHANGED <<inputVars, orchVars, authVars, idx, limitHit, hourWaits,
                   sendVars>>

\* faulty variant of HourLoop: an empty batch does not end the loop
HourLoop_NoBreak(i) ==
    /\ pc[i] = "hour"
    /\ IF hour[i] > TOTAL_HOURS
       THEN pc' = [pc EXCEPT ![i] = "returned"] /\ idx' = idx
       ELSE pc' = [pc EXCEPT ![i] = "batch"] /\ idx' = [idx EXCEPT ![i] = 0]
    /\ UNCHANGED <<inputVars, orchVars, authVars, hour, sent_total, limitHit,
                   hourWaits, sendVars, sessionFile, saves, lastRaise>>

\* lines 182-186: head of the hour loop.  The loop ends after TOTAL_HOURS
\* iterations or at the first empty batch.
HourLoop(i) ==
    /\ pc[i] = "hour"
    /\ IF hour[i] > TOTAL_HOURS \/ Batch(targets(i), hour[i]) = <<>>
       THEN pc' = [pc EXCEPT ![i] = "returned"] /\ idx' = idx
       ELSE pc' = [pc EXCEPT ![i] = "batch"] /\ idx' = [idx EXCEPT ![i] = 0]
    /\ UNCHANGED <<inputVars, orchVars, authVars, hour, sent_total, limitHit,
                   hourWaits, sendVars, sessionFile, saves, lastRaise>>

\* faulty variant of LimitReached: the counter is compared with the hourly
\* quota
LimitReached_Hourly(i) == sent_total[i] >= DMS_PER_HOUR

\* line 189: the daily-limit check
LimitReached(i) == sent_total[i] >= DAILY_LIMIT

\* lines 188-195: the batch has a next target and the limit check passes;
\* the attempt for that target begins.
BeginAttempt(i) ==
    /\ pc[i] = "batch"
    /\ idx[i] < Len(Batch(targets(i), hour[i]))
    /\ ~LimitReached(i)
    /\ attempted' = [attempted EXCEPT ![i] =
                        Append(@, <<hour[i], Batch(targets(i), hour[i])[idx[i] + 1]>>)]
    /\ pc' = [pc EXCEPT ![i] = "sending"]
    /\ UNCHANGED <<inputVars, orchVars, authVars, loopVars, written, textSent,
                   mediaTried, cooldowns, logFile, sessionFile, saves, lastRaise>>

\* faulty variant of EndBatch: no hourly checkpoint of the session
EndBatch_NoSave(i) ==
    /\ pc[i] = "batch"
    /\ idx[i] >= Len(Batch(targets(i), hour[i])) \/ LimitReached(i)
    /\ limitHit' = [limitHit EXCEPT ![i] =
                       @ \/ idx[i] < Len(Batch(targets(i), hour[i]))]
    /\ hourWaits' = [hourWaits EXCEPT ![i] =
                        @ + (IF hour[i] < TOTAL_HOURS THEN 1 ELSE 0)]
    /\ hour' = [hour EXCEPT ![i] = @ + 1]
    /\ pc' = [pc EXCEPT ![i] = "hour"]
    /\ UNCHANGED <<inputVars, orchVars, authVars, idx, sent_total, sendVars,
                   sessionFile, saves, lastRaise>>

\* lines 189-191 and 234-238: the batch is exhausted or the limit check
\* breaks out of it; the session is saved and, unless this was the last
\* hour, the worker sleeps one hour.
EndBatch(i) ==
    /\ pc[i] = "batch"
    /\ idx[i] >= Len(Batch(targets(i), hour[i])) \/ LimitReached(i)
    /\ limitHit' = [limitHit EXCEPT ![i] =
                       @ \/ idx[i] < Len(Batch(targets(i), hour[i]))]
    /\ \E saveOK \in BOOLEAN :
        IF saveOK
        THEN /\ sessionFile' = [sessionFile EXCEPT ![UserOf(i)] = TRUE]
             /\ saves' = [saves EXCEPT ![i] = @ + 1]
             /\ hourWaits' = [hourWaits EXCEPT ![i] =
                                 @ + (IF hour[i] < TOTAL_HOURS THEN 1 ELSE 0)]
             /\ hour' = [hour EXCEPT ![i] = @ + 1]
             /\ pc' = [pc EXCEPT ![i] = "hour"]
             /\ lastRaise' = lastRaise
        ELSE /\ pc' = [pc EXCEPT ![i] = "raised"]
             /\ lastRaise' = [lastRaise EXCEPT ![i] = "save"]
             /\ UNCHANGED <<sessionFile, saves, hourWaits, hour>>
    /\ UNCHANGED <<inputVars, orchVars, authVars, idx, sent_total, sendVars>>

\* faulty variant of append_log: the header is written on every call
append_log_AlwaysHeader(file, row) == file \o <<HEADER, row>>

\* append_log, lines 57-70: the header goes in front of the first row of a
\* new file; every call adds one row at the end.
append_log(file, row) ==
    IF file = <<>> THEN <<HEADER, row>> ELSE Append(file, row)

\* generate_gpt_dm, lines 134-145, returns the generated text, or the canned
\* message when the service call fails or returns nothing: never an empty
\* string, which is all that line 232 looks at.  Both are written "text".
generate_gpt_dm == "text"

\* faulty variant of random_image: a path is returned although the directory
\* holds no image
random_image_AlwaysPath == TRUE

\* random_image, lines 72-77: a path when the media directory exists and
\* holds an image file, None otherwise; line 213 only tests it for truth
random_image == mediaAvailable

\* The exception handler of lines 230-232: one "failed" row with the
\* message produced so far (or N/A); image_sent is still False.
Failed(message, delivered, media) ==
    [rows |-> << <<"failed", IF message = "" THEN "N/A" ELSE message, FALSE>> >>,
     counted |-> 0, cooled |-> FALSE, caught |-> TRUE,
     textDelivered |-> delivered, mediaTried |-> media]

\* faulty variant of TrySend: the success row is logged before the image is
\* sent, so a media failure leaves two rows
TrySend_LogBeforeImage(v1OK, v2OK, bioOK, textOK, img, roll, mediaOK) ==
    IF ~v1OK /\ ~v2OK THEN Failed("", FALSE, FALSE)
    ELSE IF ~bioOK THEN Failed("", FALSE, FALSE)
    ELSE IF ~textOK THEN Failed(generate_gpt_dm, FALSE, FALSE)
    ELSE IF img /\ roll /\ ~mediaOK
         THEN [Failed(generate_gpt_dm, TRUE, TRUE) EXCEPT
                  !.rows = << <<"success", generate_gpt_dm, FALSE>> >> \o @]
    ELSE [rows |-> << <<"success", generate_gpt_dm, img /\ roll>> >>,
          counted |-> 1, cooled |-> TRUE, caught |-> TRUE,
          textDelivered |-> TRUE, mediaTried |-> img /\ roll]

\* faulty variant of TrySend: the profile lookup sits outside the try block,
\* so its exception is not caught and no row is written
TrySend_LookupUncaught(v1OK, v2OK, bioOK, textOK, img, roll, mediaOK) ==
    IF ~v1OK /\ ~v2OK
    THEN [Failed("", FALSE, FALSE) EXCEPT !.rows = <<>>, !.caught = FALSE]
    ELSE IF ~bioOK THEN Failed("", FALSE, FALSE)
    ELSE IF ~textOK THEN Failed(generate_gpt_dm, FALSE, FALSE)
    ELSE IF img /\ roll /\ ~mediaOK THEN Failed(generate_gpt_dm, TRUE, TRUE)
    ELSE [rows |-> << <<"success", generate_gpt_dm, img /\ roll>> >>,
          counted |-> 1, cooled |-> TRUE, caught |-> TRUE,
          textDelivered |-> TRUE, mediaTried |-> img /\ roll]

\* The try block of lines 197-228 for one target, by the outcome of each
\* external call in the order the code makes them: the rows passed to
\* append_log, the increment of sent_total, whether the cooldown sleep ran
\* and whether the exception (if any) was caught inside run_account.
TrySend(v1OK, v2OK, bioOK, textOK, img, roll, mediaOK) ==
    IF ~v1OK /\ ~v2OK THEN Failed("", FALSE, FALSE)
    ELSE IF ~bioOK THEN Failed("", FALSE, FALSE)
    ELSE IF ~textOK THEN Failed(generate_gpt_dm, FALSE, FALSE)
    ELSE IF img /\ roll /\ ~mediaOK THEN Failed(generate_gpt_dm, TRUE, TRUE)
    ELSE [rows |-> << <<"success", generate_gpt_dm, img /\ roll>> >>,
          counted |-> 1, cooled |-> TRUE, caught |-> TRUE,
          textDelivered |-> TRUE, mediaTried |-> img /\ roll]

\* faulty variant of NewSentTotal: the image message is counted as well
NewSentTotal_CountsImages(sent, r) ==
    sent + r.counted + (IF r.counted = 1 /\ r.mediaTried THEN 1 ELSE 0)

\* line 220: sent_total += 1 on the success path only
NewSentTotal(sent, r) == sent + r.counted

\* the append_log calls of one attempt, in order
RECURSIVE LogRows(_, _, _)
LogRows(file, target, rows) ==
    IF rows = <<>> THEN file
    ELSE LogRows(append_log(file, <<target>> \o Head(rows)), target, Tail(rows))

\* the rows of one attempt as they stand in the file
RowsFor(target, rows) == [k \in 1..Len(rows) |-> <<target>> \o rows[k]]

\* lines 197-232: the send sequence of the current target and its record
SendSequence(i) ==
    /\ pc[i] = "sending"
    /\ \E v1OK \in BOOLEAN, v2OK \in BOOLEAN, bioOK \in BOOLEAN,
          textOK \in BOOLEAN, roll \in BOOLEAN, mediaOK \in BOOLEAN :
        LET pos == Batch(targets(i), hour[i])[idx[i] + 1]
            target == targets(i)[pos]
            r == TrySend(v1OK, v2OK, bioOK, textOK, random_image,
                         roll, mediaOK)
        IN  /\ written' = [written EXCEPT ![i] = @ \o RowsFor(target, r.rows)]
            /\ logFile' = [logFile EXCEPT ![UserOf(i)] =
                              LogRows(@, target, r.rows)]
            /\ textSent' = [textSent EXCEPT ![i] =
                               IF r.textDelivered THEN Append(@, pos) ELSE @]
            /\ mediaTried' = [mediaTried EXCEPT ![i] =
                                 @ + (IF r.mediaTried THEN 1 ELSE 0)]
            /\ sent_total' = [sent_total EXCEPT ![i] = NewSentTotal(@, r)]
            /\ cooldowns' = [cooldowns EXCEPT ![i] = Append(@, r.cooled)]
            /\ IF r.caught
               THEN /\ idx' = [idx EXCEPT ![i] = @ + 1]
                    /\ pc' = [pc EXCEPT ![i] = "batch"]
                    /\ lastRaise' = lastRaise
               ELSE /\ idx' = idx
                    /\ pc' = [pc EXCEPT ![i] = "raised"]
                    /\ lastRaise' = [lastRaise EXCEPT ![i] = "send"]
    /\ UNCHANGED <<inputVars, orchVars, authVars, hour, limitHit, hourWaits,
                   attempted, sessionFile, saves>>

\* ------------------------------------------------------------------- specs
run_account(i) ==
    \/ StartWorker(i)
    \/ ReadTargets(i)
    \/ TryRestore(i)
    \/ FreshLogin(i)
    \/ SaveAfterLogin(i)
    \/ HourLoop(i)
    \/ BeginAttempt(i)
    \/ EndBatch(i)
    \/ SendSequence(i)

run_concurrent == Submit \/ GatherRaise \/ GatherReturn \/ ExecutorExit

Next ==
    \/ Main
    \/ run_concurrent
    \/ \E i \in Workers : run_account(i)

Spec == Init /\ [][Next]_vars

SpecOrch == InitOrch /\ [][Next]_vars

SpecDup == InitDup /\ [][Next]_vars

\* the accounts of InitOrch, or one account on its first run (no session
\* file, no audit log yet) with any of the target lists
InitFair ==
    \/ InitOrch
    \/ Init /\ ~sessionFile[1] /\ logFile[1] = <<>>

\* Every external call and every sleep returns, so main, the event loop and
\* the pool threads each take their next step as long as they have one.
SpecFair == InitFair /\ [][Next]_vars /\ WF_vars(Next)

\* ------------------------------------------------------------- properties
SuccessRows(rows) == Cardinality({k \in 1..Len(rows) : rows[k][2] = "success"})

PositionsOf(att) == [k \in 1..Len(att) |-> att[k][2]]

OfHour(e, b) == e[1] = b

\* list positions attempted during hour b, in the order of the attempts
AttemptsOfHour(i, b) ==
    LET Pick(e) == OfHour(e, b) IN PositionsOf(SelectSeq(attempted[i], Pick))

IsPrefix(s, t) == Len(s) <= Len(t) /\ \A j \in 1..Len(s) : s[j] = t[j]

\* the list positions of targets[(b-1)*k : b*k] for a list of n targets
ExpectedBatch(n, b) ==
    LET lo == Min((b - 1) * DMS_PER_HOUR, n)
        hi == Min(b * DMS_PER_HOUR, n)
    IN  [j \in 1..(hi - lo) |-> lo + j]

\* the worker has left the target loop of hour b
BatchLeft(i, b) == hour[i] > b \/ (hour[i] = b /\ pc[i] = "raised")

\* C1: every completed attempt has appended exactly one audit record, for the
\* target attempted: the records of the run are as many as the attempts
\* (less the one in progress), and never more than the target list is long.
C1_OneRecordPerAttempt ==
    \A i \in Workers :
        /\ Len(written[i]) =
               Len(attempted[i]) - (IF pc[i] = "sending" THEN 1 ELSE 0)
        /\ \A k \in 1..Len(written[i]) :
               written[i][k][1] = targets(i)[attempted[i][k][2]]
        /\ Len(attempted[i]) <= Len(targets(i))

\* a finished run of more than one batch with a lookup or generation
\* failure, a media failure after a delivered text, and a success
C1_Witness ==
    \E i \in Workers :
        /\ pc[i] = "returned"
        /\ Len(written[i]) > DMS_PER_HOUR
        /\ \E k \in 1..Len(written[i]) : written[i][k][3] = "N/A"
        /\ \E k \in 1..Len(written[i]) :
               written[i][k][2] = "failed" /\ written[i][k][3] = "text"
        /\ mediaTried[i] > 0
        /\ Len(textSent[i]) > sent_total[i]
        /\ sent_total[i] > 0

\* C2: the success records of a run, and sent_total, never exceed
\* dms_per_hour * total_hours.
C2_SuccessWithinDailyLimit ==
    \A i \in Workers :
        /\ SuccessRows(written[i]) <= DMS_PER_HOUR * TOTAL_HOURS
        /\ sent_total[i] <= DMS_PER_HOUR * TOTAL_HOURS

\* a list longer than the limit, every attempt a success, the run over
C2_Witness ==
    \E i \in Workers :
        /\ pc[i] = "returned"
        /\ Len(targets(i)) > DAILY_LIMIT
        /\ sent_total[i] = DAILY_LIMIT
        /\ SuccessRows(written[i]) = DAILY_LIMIT

\* C3: the targets attempted during hour b are a prefix of
\* targets[(b-1)*k : b*k] in file order, the whole slice once the worker has
\* left that batch; attempts go through the list in strictly increasing
\* position, so batches never overlap.
C3_BatchesAreSlices ==
    \A i \in Workers :
        /\ \A k \in 1..Len(attempted[i]) : attempted[i][k][1] \in 1..TOTAL_HOURS
        /\ \A b \in 1..TOTAL_HOURS :
               /\ IsPrefix(AttemptsOfHour(i, b),
                           ExpectedBatch(Len(targets(i)), b))
               /\ BatchLeft(i, b) =>
                      AttemptsOfHour(i, b) = ExpectedBatch(Len(targets(i)), b)
        /\ \A k \in 1..(Len(attempted[i]) - 1) :
               attempted[i][k][2] < attempted[i][k + 1][2]

\* a finished run with a full first batch and a full last batch
C3_Witness ==
    \E i \in Workers :
        /\ pc[i] = "returned"
        /\ Len(AttemptsOfHour(i, 1)) = DMS_PER_HOUR
        /\ Len(AttemptsOfHour(i, TOTAL_HOURS)) = DMS_PER_HOUR
        /\ Len(attempted[i]) = DAILY_LIMIT

\* C4: no failure of a send sequence ends the worker, and a worker that
\* returns without the daily-limit break has attempted every target of the
\* first total_hours batches, whichever attempts failed.
C4_SendFailureNeverStopsWorker ==
    \A i \in Workers :
        /\ lastRaise[i] # "send"
        /\ (pc[i] = "returned" /\ authed[i] /\ ~limitHit[i]) =>
               PositionsOf(attempted[i]) =
                   Positions(Slice(targets(i), 0, DMS_PER_HOUR * TOTAL_HOURS))

\* a finished run in which every attempt of every batch failed
C4_Witness ==
    \E i \in Workers :
        /\ pc[i] = "returned"
        /\ Len(written[i]) = DAILY_LIMIT
        /\ \A k \in 1..Len(written[i]) : written[i][k][2] = "failed"
        /\ written[i][1][3] = "N/A"
        /\ \E k \in 1..Len(written[i]) : written[i][k][3] = "text"

\* C5: after a failed restore the fresh login is issued exactly once, before
\* any send; a worker that saves a session or sends has authenticated.
C5_FreshLoginOnceBeforeSend ==
    \A i \in Workers :
        /\ freshLogins[i] <= 1
        /\ restoreFailed[i] =>
               freshLogins[i] = (IF pc[i] = "fresh" THEN 0 ELSE 1)
        /\ pc[i] = "fresh" => attempted[i] = <<>>
        /\ (attempted[i] # <<>> \/ pc[i] \in {"save", "hour", "batch", "sending"})
               => authed[i]

\* the restore failed, the fresh login succeeded and a text went out
C5_Witness ==
    \E i \in Workers :
        /\ restoreFailed[i]
        /\ freshLogins[i] = 1
        /\ authed[i]
        /\ textSent[i] # <<>>

Range(f) == {f[k] : k \in 1..Len(f)}

\* C6: every target whose text delivery succeeded has a 'success' record and
\* is counted in sent_total, whether or not the media delivery that follows
\* succeeds.
C6_MediaFailureKeepsSuccess ==
    \A i \in Workers :
        /\ \A k \in 1..Len(written[i]) :
               attempted[i][k][2] \in Range(textSent[i]) =>
                   written[i][k][2] = "success"
        /\ pc[i] # "sending" => sent_total[i] = Len(textSent[i])

\* C7: a worker whose last login raised has ended without an attempt, a
\* delivery or an audit record, and when the orchestrator is over every
\* other account has been launched and has run its worker to its end.
C7_AuthFailureIsolated ==
    \A i \in Workers :
        lastRaise[i] = "login" =>
            /\ pc[i] = "raised"
            /\ ~authed[i]
            /\ attempted[i] = <<>> /\ written[i] = <<>> /\ textSent[i] = <<>>
            /\ saves[i] = 0
            /\ orchPc \in {"returned", "raised"} =>
                   \A j \in Workers \ {i} :
                       /\ Finished(j)
                       /\ (pc[j] = "returned" /\ authed[j]) =>
                              Len(written[j]) =
                                  Min(Len(targets(j)), DMS_PER_HOUR * TOTAL_HOURS)

\* restore and fresh login both failed for one account; the orchestrator is
\* over and every other account has returned
C7_Witness ==
    \E i \in Workers :
        /\ lastRaise[i] = "login"
        /\ restoreFailed[i]
        /\ orchPc = "raised"
        /\ \A j \in Workers \ {i} : pc[j] = "returned"
        /\ \E j \in Workers : j > i

\* C8: main ends in failure only when the accounts file cannot be read, and
\* run_concurrent never raises.
C8_OrchFailsOnlyOnEnumeration ==
    /\ mainPc = "fatal" => ~accountsFileExists
    /\ orchPc # "raised"

\* C9: when run_concurrent has returned or raised, every submitted worker has
\* finished, and by its own end: a return after its last batch (or for want
\* of targets), or its own login or session-save exception.
C9_WaitsForAllWorkers ==
    orchPc \in {"returned", "raised"} =>
        \A i \in Workers :
            /\ Finished(i)
            /\ pc[i] = "raised" => lastRaise[i] \in {"login", "save"}
            /\ pc[i] = "returned" =>
                   \/ ~listExists[UserOf(i)] \/ targets(i) = <<>>
                   \/ /\ authed[i]
                      /\ Len(written[i]) =
                             Min(Len(targets(i)), DMS_PER_HOUR * TOTAL_HOURS)

\* a worker has raised, gather has passed the exception on, and the exit of
\* the executor block is waiting for a running and a queued worker
C9_Witness ==
    /\ orchPc = "exiting"
    /\ orchErr
    /\ \E i \in Workers : pc[i] = "raised"
    /\ \E i \in Workers : Running(i)
    /\ \E i \in Workers : pc[i] = "queued"

\* C10: at most max_concurrent workers are running at any time.
C10_PoolBound ==
    Cardinality({i \in Workers : Running(i)}) <= max_concurrent

\* the pool is full and a submitted account is waiting for a thread
C10_Witness ==
    /\ Cardinality({i \in Workers : Running(i)}) = max_concurrent
    /\ \E i \in Workers : pc[i] = "queued"


\* C11: no two workers that are running at the same time have the same
\* account identifier.
C11_NoTwoWorkersShareAccount ==
    \A i, j \in Workers :
        (i # j /\ Running(i) /\ Running(j)) => UserOf(i) # UserOf(j)


\* C12: a failure to save the session never ends the worker.
C12_SaveFailureNonFatal ==
    \A i \in Workers : ~(pc[i] = "raised" /\ lastRaise[i] = "save")


\* C13: within one run of one account no handle receives two text
\* deliveries.
C13_HandleContactedAtMostOnce ==
    \A i \in Workers :
        \A k, l \in 1..Len(textSent[i]) :
            k # l => targets(i)[textSent[i][k]] # targets(i)[textSent[i][l]]


\* C14: when no media asset is available no media delivery is attempted and
\* every audit record written has image_sent = false.
C14_NoMediaNoImage ==
    ~mediaAvailable =>
        \A i \in Workers :
            /\ mediaTried[i] = 0
            /\ \A k \in 1..Len(written[i]) : written[i][k][4] = FALSE

\* a run without media has ended with a 'success' and a 'failed' record
C14_Witness ==
    /\ ~mediaAvailable
    /\ \E i \in Workers :
        /\ pc[i] = "returned"
        /\ \E k \in 1..Len(written[i]) : written[i][k][2] = "success"
        /\ \E k \in 1..Len(written[i]) : written[i][k][2] = "failed"


\* the hour whose slice holds the last line of the target list
LastHour(i) == (Len(targets(i)) + DMS_PER_HOUR - 1) \div DMS_PER_HOUR

\* the last line of the target list has been attempted before the last hour
ExhaustedEarly(i) ==
    /\ LastHour(i) < TOTAL_HOURS
    /\ \E k \in 1..Len(attempted[i]) : attempted[i][k][2] = Len(targets(i))

\* C15 as stated: once the last target of a list that ends before the last
\* hour has been attempted, the worker performs no further one-hour wait;
\* its waits stay those that preceded the batch of the last target.
C15_NoWaitAfterLastTarget ==
    \A i \in Workers :
        ExhaustedEarly(i) => hourWaits[i] = LastHour(i) - 1

\* C15 amended: once the last target of a list that ends before the last
\* hour has been attempted, the worker performs at most one further one-hour
\* wait, the one that closes the batch of the last target; it returns at the
\* empty batch of the next hour and never waits out the remaining hours.
C15_OneWaitAfterLastTarget ==
    \A i \in Workers :
        ExhaustedEarly(i) =>
            /\ hourWaits[i] \in {LastHour(i) - 1, LastHour(i)}
            /\ hour[i] \in {LastHour(i), LastHour(i) + 1}
            /\ pc[i] = "returned" =>
                   hourWaits[i] = LastHour(i) /\ hour[i] = LastHour(i) + 1
            /\ hour[i] = LastHour(i) + 1 => pc[i] \in {"hour", "returned"}

\* a worker has returned at the empty batch that follows its last target,
\* one hour wait later and with hours to spare
C15_Witness ==
    \E i \in Workers :
        /\ ExhaustedEarly(i)
        /\ pc[i] = "returned"
        /\ hourWaits[i] = LastHour(i)
        /\ hour[i] + 1 <= TOTAL_HOURS


\* C16: between two consecutive attempts of the same batch the worker has
\* performed the cooldown sleep, whatever the outcome of the earlier one.
C16_CooldownBetweenAttempts ==
    \A i \in Workers :
        \A k \in 1..(Len(attempted[i]) - 1) :
            attempted[i][k][1] = attempted[i][k + 1][1] => cooldowns[i][k]


\* the hours of the batches in which the worker attempted a target
NonEmptyBatches(i) == {b \in 1..TOTAL_HOURS : AttemptsOfHour(i, b) # <<>>}

\* C17: the session is saved once after authentication, before the first
\* attempt, and once after every non-empty batch, before the hourly wait: a
\* worker between batches or at its return has made 1 + (non-empty batches)
\* saves, a worker inside a batch 1 + (earlier non-empty batches), and a
\* worker ended by a save that raised lacks exactly that save.
C17_SavesPerBatch ==
    \A i \in Workers :
        /\ attempted[i] # <<>> => saves[i] >= 1
        /\ hourWaits[i] > 0 => hourWaits[i] < saves[i]
        /\ (pc[i] \in {"hour", "returned"} /\ authed[i]) =>
               saves[i] = 1 + Cardinality(NonEmptyBatches(i))
        /\ pc[i] \in {"batch", "sending"} =>
               saves[i] = 1 + Cardinality(NonEmptyBatches(i) \ {hour[i]})
        /\ (pc[i] = "raised" /\ lastRaise[i] = "save") =>
               saves[i] = Cardinality(NonEmptyBatches(i))

\* a worker has returned after TOTAL_HOURS non-empty batches
C17_Witness ==
    \E i \in Workers :
        /\ pc[i] = "returned"
        /\ Cardinality(NonEmptyBatches(i)) = TOTAL_HOURS
        /\ saves[i] = 1 + TOTAL_HOURS


\* a row is the header row: its status column holds the column title
IsHeader(row) == row[2] = HEADER[2]

\* the header is the first row of a log that exists, and no other row
HeaderOnce(file) ==
    file # <<>> =>
        /\ IsHeader(file[1])
        /\ \A k \in 2..Len(file) : ~IsHeader(file[k])

\* C18: every step leaves the rows already in an account's audit log where
\* they were and unchanged, and the log holds the header exactly once, as
\* its first row, whether the run created the file or found it.
C18_LogAppendOnly ==
    [][\A u \in DOMAIN logFile :
           /\ IsPrefix(logFile[u], logFile'[u])
           /\ HeaderOnce(logFile'[u])]_vars

\* a run has appended two records to the log left by an earlier run
C18_Witness ==
    \E u \in DOMAIN logFile :
        /\ Len(logFile[u]) >= 4
        /\ IsHeader(logFile[u][1])
        /\ logFile[u][2] = OLD_ROW


\* C20: whenever the daily-limit check is evaluated the success counter is
\* below DAILY_LIMIT, so the check never breaks out of a batch; the attempts
\* of a run never exceed DAILY_LIMIT, and a worker that returns has attempted
\* every one of the first DMS_PER_HOUR * TOTAL_HOURS lines of its list, in
\* order.
C20_LimitBreakNeverTaken ==
    \A i \in Workers :
        /\ ~limitHit[i]
        /\ (pc[i] = "batch" /\ idx[i] < Len(Batch(targets(i), hour[i]))) =>
               sent_total[i] < DAILY_LIMIT
        /\ Len(attempted[i]) <= DAILY_LIMIT
        /\ (pc[i] = "returned" /\ authed[i]) =>
               PositionsOf(attempted[i]) =
                   [p \in 1..Min(Len(targets(i)), DMS_PER_HOUR * TOTAL_HOURS) |-> p]

\* the check is evaluated for the last target of the last batch after
\* DAILY_LIMIT - 1 successes
C20_Witness ==
    \E i \in Workers :
        /\ pc[i] = "batch"
        /\ hour[i] = TOTAL_HOURS
        /\ idx[i] = DMS_PER_HOUR - 1
        /\ idx[i] < Len(Batch(targets(i), hour[i]))
        /\ sent_total[i] = DAILY_LIMIT - 1


\* main is over and every worker that was submitted has ended
Terminated ==
    /\ mainPc \in {"done", "fatal"}
    /\ \A i \in Workers : pc[i] = "unsubmitted" \/ Finished(i)

\* C19: no worker attempts a target after hour TOTAL_HOURS or starts a
\* batch beyond it, and eventually main has returned or failed with every
\* submitted worker at its end (returned, or raised by login or save).
C19_Terminates ==
    /\ [](\A i \in Workers :
              /\ hour[i] <= TOTAL_HOURS + 1
              /\ pc[i] \in {"batch", "sending"} => hour[i] <= TOTAL_HOURS
              /\ \A k \in 1..Len(attempted[i]) :
                     attempted[i][k][1] <= TOTAL_HOURS)
    /\ <>Terminated

\* main has returned after a worker went through all TOTAL_HOURS batches
C19_Witness ==
    /\ Terminated
    /\ mainPc = "done"
    /\ \E i \in Workers :
        /\ pc[i] = "returned"
        /\ hour[i] = TOTAL_HOURS + 1
        /\ Cardinality(NonEmptyBatches(i)) = TOTAL_HOURS

====
